---- MODULE Spec2Model ----
(***************************************************************************)
(* Model of sbin/scaffold.py: the one-shot script that turns a clone of    *)
(* the autobots-agents-jarvis template into a concretely named project.    *)
(* Strings are TLA+ strings (sequences of characters); a path is a         *)
(* sequence of names relative to the project directory; the file system    *)
(* is a set of entries.                                                    *)
(***************************************************************************)
EXTENDS Integers, Sequences, FiniteSets, TLC

VARIABLES pc, args, fs, fs0, fs_ren, names, steps, mlog, exit_code,
          exit_reason, scan_rev, rn, rn2

vars == <<pc, args, fs, fs0, fs_ren, names, steps, mlog, exit_code,
          exit_reason, scan_rev, rn, rn2>>

----------------------------------------------------------------------------
(* Python str primitives                                                   *)

Char(s, i) == SubSeq(s, i, i)

StartsAt(s, i, t) ==
    /\ i + Len(t) - 1 <= Len(s)
    /\ SubSeq(s, i, i + Len(t) - 1) = t

\* index of the first occurrence of t in s at or after i, 0 when there is none
FindFrom(s, t, i) ==
    LET hits == {k \in i..(Len(s) - Len(t) + 1) : StartsAt(s, k, t)}
    IN  IF hits = {} THEN 0 ELSE CHOOSE k \in hits : \A j \in hits : k <= j

\* Python: t in s
Contains(s, t) == FindFrom(s, t, 1) # 0

RECURSIVE ReplaceFrom(_, _, _, _)
ReplaceFrom(s, old, new, i) ==
    LET k == FindFrom(s, old, i)
    IN  IF k = 0 THEN SubSeq(s, i, Len(s))
        ELSE SubSeq(s, i, k - 1) \o new \o ReplaceFrom(s, old, new, k + Len(old))

RECURSIVE Interleave(_, _, _)
Interleave(s, new, i) ==
    IF i > Len(s) THEN new
    ELSE new \o Char(s, i) \o Interleave(s, new, i + 1)

\* Python: s.replace(old, new): every non-overlapping occurrence, leftmost first
str_replace(s, old, new) ==
    IF old = "" THEN Interleave(s, new, 1) ELSE ReplaceFrom(s, old, new, 1)

LowerLetters == "abcdefghijklmnopqrstuvwxyz"
UpperLetters == "ABCDEFGHIJKLMNOPQRSTUVWXYZ"
Digits == "0123456789"

IsLower(c) == Len(c) = 1 /\ Contains(LowerLetters, c)
IsUpper(c) == Len(c) = 1 /\ Contains(UpperLetters, c)
IsDigit(c) == Len(c) = 1 /\ Contains(Digits, c)

UpperChar(c) ==
    IF IsLower(c) THEN Char(UpperLetters, FindFrom(LowerLetters, c, 1)) ELSE c

LowerChar(c) ==
    IF IsUpper(c) THEN Char(LowerLetters, FindFrom(UpperLetters, c, 1)) ELSE c

RECURSIVE str_upper(_)
str_upper(s) == IF s = "" THEN "" ELSE UpperChar(Char(s, 1)) \o str_upper(Tail(s))

RECURSIVE str_lower(_)
str_lower(s) == IF s = "" THEN "" ELSE LowerChar(Char(s, 1)) \o str_lower(Tail(s))

\* Python: s.capitalize(): first character upper-cased, the rest lower-cased
str_capitalize(s) ==
    IF s = "" THEN "" ELSE UpperChar(Char(s, 1)) \o str_lower(Tail(s))

RECURSIVE SplitFrom(_, _, _)
SplitFrom(s, sep, i) ==
    LET k == FindFrom(s, sep, i)
    IN  IF k = 0 THEN <<SubSeq(s, i, Len(s))>>
        ELSE <<SubSeq(s, i, k - 1)>> \o SplitFrom(s, sep, k + Len(sep))

\* Python: s.split(sep)
str_split(s, sep) == SplitFrom(s, sep, 1)

RECURSIVE JoinCap(_, _, _)
\* Python: sep.join(p.capitalize() for p in parts)
JoinCap(parts, sep, i) ==
    IF i > Len(parts) THEN ""
    ELSE str_capitalize(parts[i])
         \o (IF i < Len(parts) THEN sep ELSE "")
         \o JoinCap(parts, sep, i + 1)

RECURSIVE NatToStr(_)
NatToStr(n) ==
    IF n < 10 THEN Char(Digits, n + 1)
    ELSE NatToStr(n \div 10) \o Char(Digits, (n % 10) + 1)

\* Python: f"{port}" for an int
IntToStr(n) == IF n < 0 THEN "-" \o NatToStr(0 - n) ELSE NatToStr(n)

----------------------------------------------------------------------------
(* derive_names                                                            *)

RECURSIVE ReMatch(_, _, _)
\* re.match(r"^[a-z][a-z0-9]*(-[a-z0-9]+)*$", name), as the automaton of the
\* pattern: st = "first" before the leading letter, "run" inside an
\* alphanumeric run, "hyphen" right after a hyphen.  Python's $ matches at the
\* end of the string and also just before a newline that ends the string.
ReMatch(s, i, st) ==
    LET c == Char(s, i)
        atEnd == i > Len(s)
        beforeFinalNewline == i = Len(s) /\ c = "\n"
    IN  \/ st = "run" /\ (atEnd \/ beforeFinalNewline)
        \/ /\ ~atEnd
           /\ \/ st = "first" /\ IsLower(c) /\ ReMatch(s, i + 1, "run")
              \/ st = "run" /\ (IsLower(c) \/ IsDigit(c)) /\ ReMatch(s, i + 1, "run")
              \/ st = "run" /\ c = "-" /\ ReMatch(s, i + 1, "hyphen")
              \/ st = "hyphen" /\ (IsLower(c) \/ IsDigit(c)) /\ ReMatch(s, i + 1, "run")

\* mutant: the hyphen groups repeat with + instead of *
NameAcceptedNeedingHyphen(name) == ReMatch(name, 1, "first") /\ Contains(name, "-")

NameAccepted(name) == ReMatch(name, 1, "first")

derive_names(name) ==
    LET snake  == str_replace(name, "-", "_")
        parts  == str_split(name, "-")
    IN  [ name         |-> name,
          repo_name    |-> "autobots-" \o name,
          pypi_name    |-> "autobots-" \o name,
          package_name |-> "autobots_" \o snake,
          snake_name   |-> snake,
          pascal_name  |-> JoinCap(parts, "", 1),
          display_name |-> JoinCap(parts, " ", 1) ]

NoNames == derive_names("")

----------------------------------------------------------------------------
(* build_replacements / apply_replacements                                 *)

build_replacements(nm) ==
    LET sn == nm.snake_name
        upper_sn == str_upper(sn)
        pkg == nm.package_name
        pascal == nm.pascal_name
        display == nm.display_name
        repo == nm.repo_name
    IN  << <<"autobots-agents-jarvis", repo>>,
           <<"autobots_agents_jarvis", pkg>>,
           <<"JarvisSettings", pascal \o "Settings">>,
           <<"get_jarvis_settings", "get_" \o sn \o "_settings">>,
           <<"init_jarvis_settings", "init_" \o sn \o "_settings">>,
           <<"register_jarvis_tools", "register_" \o sn \o "_tools">>,
           <<"_get_jarvis_batch_agents", "_get_" \o sn \o "_batch_agents">>,
           <<"jarvis_registered", sn \o "_registered">>,
           <<"jarvis_batch", sn \o "_batch">>,
           <<"jarvis_chat", sn \o "_chat">>,
           <<"jarvis-chat", sn \o "-chat">>,
           <<"jarvis_tools", sn \o "_tools">>,
           <<"jarvis-invoke-demo", sn \o "-invoke-demo">>,
           <<"run_jarvis", "run_" \o sn>>,
           <<"jarvis_ui", sn \o "_ui">>,
           <<"JARVIS", upper_sn>>,
           <<"Jarvis", display>>,
           <<"jarvis", sn>> >>

RECURSIVE ApplyFrom(_, _, _)
\* the loop of apply_replacements from pair k on; the text is taken by value
\* (the one member of a set) before the next pair is applied to it
ApplyFrom(content, replacements, k) ==
    IF k > Len(replacements) THEN content
    ELSE LET old == replacements[k][1]
             new == replacements[k][2]
         IN  CHOOSE out \in {ApplyFrom(c, replacements, k + 1) :
                                c \in {str_replace(content, old, new)}} : TRUE

apply_replacements(content, replacements) == ApplyFrom(content, replacements, 1)

----------------------------------------------------------------------------
(* The file tree.  An entry is a file or a directory below the project     *)
(* directory; ino fixes the order in which a directory scan lists it.      *)

SKIP_DIRS == {".git", ".venv", "__pycache__", "node_modules"}

BINARY_EXTENSIONS ==
    {".png", ".jpg", ".jpeg", ".gif", ".ico", ".bmp", ".svg", ".woff", ".woff2",
     ".ttf", ".eot", ".pyc", ".pyo", ".so", ".dylib", ".zip", ".tar", ".gz",
     ".bz2", ".xz", ".pdf", ".drawio", ".lock"}

ARTIFACTS_TO_CLEAN ==
    << <<".coverage">>, <<"coverage.xml">>, <<"htmlcov">>, <<".pytest_cache">>,
       <<".ruff_cache">>, <<"poetry.lock">> >>

PATHS_TO_REMOVE ==
    << <<"src", "autobots_agents_jarvis", "domains", "customer_support">>,
       <<"src", "autobots_agents_jarvis", "domains", "sales">>,
       <<"agent_configs", "customer-support">>,
       <<"agent_configs", "sales">>,
       <<"sbin", "run_customer_support.sh">>,
       <<"sbin", "run_sales.sh">>,
       <<"sbin", "run_all_domains.sh">>,
       <<"tests", "unit", "domains">>,
       <<"tests", "sanity">> >>

\* Path(__file__) relative to the project directory
ScriptPath == <<"sbin", "scaffold.py">>

\* the name of the project directory itself (the clone of the template)
ProjectDirName == "autobots-agents-jarvis"

File(path, content, ino) ==
    [path |-> path, dir |-> FALSE, content |-> content, ino |-> ino, utf8 |-> TRUE]

Dir(path, ino) ==
    [path |-> path, dir |-> TRUE, content |-> "", ino |-> ino, utf8 |-> TRUE]

Name(p) == p[Len(p)]
Parent(p) == SubSeq(p, 1, Len(p) - 1)
IsPrefix(p, q) == Len(p) <= Len(q) /\ SubSeq(q, 1, Len(p)) = p

Exists(fsys, p) == \E e \in fsys : e.path = p
Entry(fsys, p) == CHOOSE e \in fsys : e.path = p
IsDir(fsys, p) == \E e \in fsys : e.path = p /\ e.dir
Subtree(fsys, p) == {e \in fsys : IsPrefix(p, e.path)}
Children(fsys, p) == {e \in fsys : Len(e.path) = Len(p) + 1 /\ IsPrefix(p, e.path)}

Op(step, kind, path) == [step |-> step, op |-> kind, path |-> path]

\* index of the last dot of s, 0 when there is none
LastDot(s) ==
    LET dots == {k \in 1..Len(s) : Char(s, k) = "."}
    IN  IF dots = {} THEN 0 ELSE CHOOSE k \in dots : \A j \in dots : j <= k

\* pathlib: Path.suffix, the last dot of the name onward; none for a leading
\* or a trailing dot
suffix(name) ==
    LET i == LastDot(name)
    IN  IF i > 1 /\ i < Len(name) THEN SubSeq(name, i, Len(name)) ELSE ""

is_binary(path) == str_lower(suffix(Name(path))) \in BINARY_EXTENSIONS

----------------------------------------------------------------------------
(* clean_artifacts / remove_demo_content                                   *)

RECURSIVE RemoveTargets(_, _, _, _, _)
\* the loop shared by the two removers: every target that exists is removed
\* (rmtree for a directory, unlink for a file) unless dry_run
RemoveTargets(st, targets, k, dry_run, step) ==
    IF k > Len(targets) THEN st
    ELSE LET target == targets[k]
             gone == Subtree(st.fs, target)
         IN  IF ~Exists(st.fs, target) \/ dry_run
             THEN RemoveTargets(st, targets, k + 1, dry_run, step)
             ELSE RemoveTargets(
                    [fs  |-> st.fs \ gone,
                     ops |-> st.ops \cup {Op(step, "delete", e.path) : e \in gone}],
                    targets, k + 1, dry_run, step)

clean_artifacts(fsys, dry_run) ==
    RemoveTargets([fs |-> fsys, ops |-> {}], ARTIFACTS_TO_CLEAN, 1, dry_run,
                  "CleanArtifacts")

remove_demo_content(fsys, dry_run) ==
    RemoveTargets([fs |-> fsys, ops |-> {}], PATHS_TO_REMOVE, 1, dry_run,
                  "RemoveDemo")

----------------------------------------------------------------------------
(* replace_in_files                                                        *)

\* os.walk with the SKIP_DIRS pruned reaches a file when none of the
\* directories above it is named in SKIP_DIRS
Walked(e) == ~e.dir /\ \A i \in 1..(Len(e.path) - 1) : e.path[i] \notin SKIP_DIRS

\* the files whose text is read and rewritten: not binary by extension, and
\* decodable as UTF-8
Rewritable(e) == Walked(e) /\ ~is_binary(e.path) /\ e.utf8

\* the non-dry-run branch: every rewritable file whose text the table
\* changes is written back
RewriteFiles(fsys, replacements) ==
    LET new(e) == IF Rewritable(e)
                  THEN [e EXCEPT !.content = apply_replacements(e.content, replacements)]
                  ELSE e
        out == {new(e) : e \in fsys}
    IN  [fs  |-> out,
         ops |-> {Op("RewriteContent", "write", e.path) : e \in out \ fsys}]

\* mutant: the dry_run flag is not consulted
replace_in_files_ignoring_dry_run(fsys, replacements, dry_run) ==
    RewriteFiles(fsys, replacements)

replace_in_files(fsys, replacements, dry_run) ==
    IF dry_run THEN [fs |-> fsys, ops |-> {}] ELSE RewriteFiles(fsys, replacements)

----------------------------------------------------------------------------
(* rename_paths                                                            *)

RECURSIVE Ordered(_, _)
\* a directory scan: the entries of S in scan order (by ino, or reversed)
Ordered(S, rev) ==
    IF S = {} THEN <<>>
    ELSE LET e == CHOOSE x \in S : \A y \in S :
                      IF rev THEN y.ino <= x.ino ELSE x.ino <= y.ino
         IN  <<e>> \o Ordered(S \ {e}, rev)

RECURSIVE WalkTopDown(_, _, _)
RECURSIVE WalkEachTopDown(_, _, _, _)
\* mutant: os.walk with topdown=True, a directory before the ones below it
WalkTopDown(fsys, top, rev) ==
    <<top>>
    \o WalkEachTopDown(fsys, Ordered({e \in Children(fsys, top) : e.dir}, rev), 1, rev)

WalkEachTopDown(fsys, subdirs, i, rev) ==
    IF i > Len(subdirs) THEN <<>>
    ELSE WalkTopDown(fsys, subdirs[i].path, rev)
         \o WalkEachTopDown(fsys, subdirs, i + 1, rev)

RECURSIVE WalkBottomUp(_, _, _)
RECURSIVE WalkEach(_, _, _, _)
\* os.walk(project_dir, topdown=False): every directory, after all the
\* directories below it
WalkBottomUp(fsys, top, rev) ==
    WalkEach(fsys, Ordered({e \in Children(fsys, top) : e.dir}, rev), 1, rev)
    \o <<top>>

WalkEach(fsys, subdirs, i, rev) ==
    IF i > Len(subdirs) THEN <<>>
    ELSE WalkBottomUp(fsys, subdirs[i].path, rev) \o WalkEach(fsys, subdirs, i + 1, rev)

DirName(root) == IF root = <<>> THEN ProjectDirName ELSE Name(root)

ParentName(root) ==
    IF Len(root) >= 2 THEN root[Len(root) - 1]
    ELSE IF Len(root) = 1 THEN ProjectDirName ELSE ""

\* the (old, new) pairs one walked directory contributes: its matching files
\* first, then the directory itself when it is one of the special cases
RootPairs(fsys, root, nm, rev) ==
    IF \E i \in 1..Len(root) : root[i] \in SKIP_DIRS THEN <<>>
    ELSE LET files == Ordered({e \in Children(fsys, root) :
                                  ~e.dir /\ Contains(Name(e.path), "jarvis")}, rev)
             filePairs ==
                 [i \in 1..Len(files) |->
                     <<files[i].path,
                       root \o <<str_replace(Name(files[i].path), "jarvis", nm.snake_name)>> >>]
             dirPairs ==
                 IF DirName(root) = "autobots_agents_jarvis"
                 THEN << <<root, Parent(root) \o <<nm.package_name>> >> >>
                 ELSE IF /\ DirName(root) = "jarvis"
                         /\ ParentName(root) \in {"domains", "agent_configs"}
                 THEN << <<root, Parent(root) \o <<nm.snake_name>> >> >>
                 ELSE <<>>
         IN  filePairs \o dirPairs

RECURSIVE CollectPairs(_, _, _, _, _)
CollectPairs(fsys, roots, i, nm, rev) ==
    IF i > Len(roots) THEN <<>>
    ELSE RootPairs(fsys, roots[i], nm, rev) \o CollectPairs(fsys, roots, i + 1, nm, rev)

\* phase one of rename_paths: the whole list, from the tree as it is
paths_to_rename(fsys, nm, rev) ==
    CollectPairs(fsys, WalkBottomUp(fsys, <<>>, rev), 1, nm, rev)

\* os.rename(old, new) on POSIX.  raised: the OSError cases (a directory onto
\* a file or a non-empty directory, a file onto a directory)
os_rename(fsys, old, new) ==
    LET src == Entry(fsys, old)
        moved == {[e EXCEPT !.path = new \o SubSeq(e.path, Len(old) + 1, Len(e.path))] :
                     e \in Subtree(fsys, old)}
        rest == fsys \ Subtree(fsys, old)
    IN  IF old = new THEN [raised |-> FALSE, fs |-> fsys]
        ELSE IF ~Exists(fsys, new) THEN [raised |-> FALSE, fs |-> rest \cup moved]
        ELSE LET dst == Entry(fsys, new)
             IN  IF src.dir /\ dst.dir /\ Children(fsys, new) = {}
                 THEN [raised |-> FALSE, fs |-> (rest \ {dst}) \cup moved]
                 ELSE IF ~src.dir /\ ~dst.dir
                 THEN [raised |-> FALSE, fs |-> (rest \ {dst}) \cup moved]
                 ELSE [raised |-> TRUE, fs |-> fsys]

RECURSIVE ExecRenames(_, _, _)
\* phase two of rename_paths: the list in order; a pair whose old path no
\* longer exists is skipped; an OSError ends the run
ExecRenames(st, pairs, k) ==
    IF k > Len(pairs) \/ st.raised THEN st
    ELSE LET old == pairs[k][1]
             new == pairs[k][2]
         IN  IF ~Exists(st.fs, old)
             THEN ExecRenames([st EXCEPT !.skipped = @ + 1], pairs, k + 1)
             ELSE LET r == os_rename(st.fs, old, new)
                  IN  IF r.raised THEN [st EXCEPT !.raised = TRUE]
                      ELSE ExecRenames(
                             [st EXCEPT !.fs = r.fs,
                                        !.renamed = @ + 1,
                                        !.ops = @ \cup {Op("RenamePaths", "rename", old)}],
                             pairs, k + 1)

rename_paths(fsys, nm, dry_run, rev) ==
    LET pairs == paths_to_rename(fsys, nm, rev)
        start == [fs |-> fsys, pairs |-> pairs, renamed |-> 0, skipped |-> 0,
                  raised |-> FALSE, ops |-> {}]
    IN  IF dry_run THEN start ELSE ExecRenames(start, pairs, 1)

NoRename ==
    [pairs |-> <<>>, renamed |-> 0, skipped |-> 0, raised |-> FALSE, paths |-> {}]

----------------------------------------------------------------------------
(* scaffold, step 6: the post-processing overrides                         *)

DEFAULT_PORT == 1337

\* read_text / replace / write_text of one target; a target that is a
\* directory or cannot be decoded raises
Override(st, path, old, new) ==
    IF st.raised \/ ~Exists(st.fs, path) THEN st
    ELSE LET e == Entry(st.fs, path)
         IN  IF e.dir \/ ~e.utf8 THEN [st EXCEPT !.raised = TRUE]
             ELSE [st EXCEPT
                     !.fs = (@ \ {e}) \cup
                            {[e EXCEPT !.content = str_replace(e.content, old, new)]},
                     !.ops = @ \cup {Op("PostProcessOverrides", "write", path)}]

RECURSIVE OverrideEach(_, _, _, _, _)
OverrideEach(st, targets, i, old, new) ==
    IF i > Len(targets) THEN st
    ELSE OverrideEach(Override(st, targets[i].path, old, new), targets, i + 1, old, new)

description_override(st, nm, a) ==
    IF a.description = "" THEN st
    ELSE Override(st, <<"pyproject.toml">>,
                  nm.display_name \o " - Multi-agent AI Assistant Demo", a.description)

\* mutant: the settings files are forgotten
port_override_without_settings(st, nm, a, rev) ==
    IF a.port = DEFAULT_PORT THEN st
    ELSE LET p == IntToStr(a.port)
             s1 == Override(st, <<"Makefile">>, "CHAINLIT_PORT = 1337",
                            "CHAINLIT_PORT = " \o p)
         IN  Override(s1, <<"sbin", "run_" \o nm.snake_name \o ".sh">>,
                      "PORT:-1337", "PORT:-" \o p)

port_override(st, nm, a, rev) ==
    IF a.port = DEFAULT_PORT THEN st
    ELSE LET p == IntToStr(a.port)
             s1 == Override(st, <<"Makefile">>, "CHAINLIT_PORT = 1337",
                            "CHAINLIT_PORT = " \o p)
             \* project_dir.rglob("settings.py"): every entry of that name
             found == Ordered({e \in s1.fs : Name(e.path) = "settings.py"}, rev)
             s2 == OverrideEach(s1, found, 1, "default=1337", "default=" \o p)
         IN  Override(s2, <<"sbin", "run_" \o nm.snake_name \o ".sh">>,
                      "PORT:-1337", "PORT:-" \o p)

post_process(fsys, nm, a, rev) ==
    LET start == [fs |-> fsys, ops |-> {}, raised |-> FALSE]
    IN  IF a.dry_run THEN start
        ELSE port_override(description_override(start, nm, a), nm, a, rev)

\* step 7
self_delete(fsys, dry_run) ==
    IF dry_run THEN [fs |-> fsys, ops |-> {}]
    ELSE [fs  |-> fsys \ {e \in fsys : e.path = ScriptPath},
          ops |-> {Op("SelfDelete", "delete", ScriptPath)}]

\* mutant: the script deletes itself before the overrides
NextStepDeletingEarly(step) ==
    CASE step = "Validate"             -> "CleanArtifacts"
      [] step = "CleanArtifacts"       -> "RemoveDemo"
      [] step = "RemoveDemo"           -> "RewriteContent"
      [] step = "RewriteContent"       -> "RenamePaths"
      [] step = "RenamePaths"          -> "SelfDelete"
      [] step = "SelfDelete"           -> "PostProcessOverrides"
      [] step = "PostProcessOverrides" -> "Done"

\* the order of the steps in scaffold
NextStep(step) ==
    CASE step = "Validate"             -> "CleanArtifacts"
      [] step = "CleanArtifacts"       -> "RemoveDemo"
      [] step = "RemoveDemo"           -> "RewriteContent"
      [] step = "RewriteContent"       -> "RenamePaths"
      [] step = "RenamePaths"          -> "PostProcessOverrides"
      [] step = "PostProcessOverrides" -> "SelfDelete"
      [] step = "SelfDelete"           -> "Done"

----------------------------------------------------------------------------
(* Inputs: command lines and initial trees                                 *)

MaxNameLen == 2

NameAlphabet == {"a", "1", "-", "A", "\n"}

RECURSIVE Strings(_)
Strings(n) ==
    IF n = 0 THEN {""}
    ELSE {""} \cup {s \o c : s \in Strings(n - 1), c \in NameAlphabet}

ExtraNames == {"kbe-pay", "jarvis-x"}

NameInputs == Strings(MaxNameLen) \cup ExtraNames

PKG == <<"src", "autobots_agents_jarvis">>

BaseTree ==
    { Dir(<<"src">>, 1),
      Dir(PKG, 2),
      File(PKG \o <<"settings.py">>, "JarvisSettings default=1337", 3),
      Dir(<<"sbin">>, 4),
      File(ScriptPath, "", 5),
      File(<<"sbin", "run_jarvis.sh">>, "PORT:-1337 jarvis-chat", 6),
      File(<<"Makefile">>, "CHAINLIT_PORT = 1337", 7),
      File(<<"pyproject.toml">>,
           "autobots-agents-jarvis Jarvis - Multi-agent AI Assistant Demo", 8),
      File(PKG \o <<"jarvis_ui.py">>, "jarvis_ui", 9) }

\* build artifacts and demo content
ArtifactsAndDemo ==
    { File(<<".coverage">>, "", 10),
      Dir(<<"htmlcov">>, 11),
      File(<<"htmlcov", "index.html">>, "Jarvis", 12),
      Dir(<<"tests">>, 13),
      Dir(<<"tests", "sanity">>, 14),
      File(<<"tests", "sanity", "test_jarvis.py">>, "run_jarvis", 15),
      File(<<"sbin", "run_sales.sh">>, "jarvis", 17) }

\* directories named in SKIP_DIRS
ProtectedDirs ==
    { Dir(<<".venv">>, 20),
      File(<<".venv", "settings.py">>, "default=1337", 21),
      Dir(<<".git">>, 22),
      File(<<".git", "jarvis">>, "jarvis", 23),
      Dir(PKG \o <<"__pycache__">>, 24),
      File(PKG \o <<"__pycache__", "jarvis_ui.pyc">>, "", 25) }

\* names the renamer's special cases do not cover, a binary and an
\* undecodable file, and a package directory that already exists
OddNames ==
    { Dir(<<"docs">>, 30),
      Dir(<<"docs", "jarvis">>, 31),
      File(<<"docs", "jarvis", "jarvis.png">>, "jarvis", 32),
      [File(<<"docs", "blob.dat">>, "jarvis", 33) EXCEPT !.utf8 = FALSE],
      Dir(PKG \o <<"domains">>, 34),
      Dir(PKG \o <<"domains", "jarvis">>, 35),
      Dir(PKG \o <<"domains", "jarvis", "jarvis">>, 36),
      File(PKG \o <<"domains", "jarvis", "jarvis_tools.py">>, "register_jarvis_tools", 37),
      Dir(<<"src", "autobots_a">>, 39),
      File(<<"src", "autobots_a", "keep.txt">>, "", 40) }

\* a directory that is no clone of the template
NoTemplateTree ==
    { Dir(<<"src">>, 1),
      Dir(<<"sbin">>, 4),
      File(ScriptPath, "", 5),
      File(<<"Makefile">>, "CHAINLIT_PORT = 1337", 7),
      File(<<"src", "jarvis.txt">>, "jarvis", 9) }

TreeInputs ==
    {BaseTree \cup a \cup b \cup c :
        a \in {{}, ArtifactsAndDemo}, b \in {{}, ProtectedDirs}, c \in {{}, OddNames}}
    \cup {NoTemplateTree}

ArgInputs ==
    [ name         : NameInputs,
      display_name : {"", "My App"},
      description  : {"", "Pay bot"},
      port         : {DEFAULT_PORT, 8080},
      dry_run      : BOOLEAN ]

----------------------------------------------------------------------------
(* scaffold as a state machine                                             *)

Init ==
    /\ pc = "Validate"
    /\ args \in ArgInputs
    /\ fs \in TreeInputs
    /\ fs0 = fs
    /\ fs_ren = {}
    /\ names = NoNames
    /\ steps = <<>>
    /\ mlog = <<>>
    /\ exit_code = -1
    /\ exit_reason = "none"
    /\ scan_rev \in BOOLEAN
    /\ rn = NoRename
    /\ rn2 = NoRename

\* what a rename_paths run on the tree fsys leaves behind for inspection: the
\* list it computed, its counts, and the paths of the tree the list was
\* computed from
Outcome(r, fsys) ==
    [pairs |-> r.pairs, renamed |-> r.renamed, skipped |-> r.skipped,
     raised |-> r.raised, paths |-> {e.path : e \in fsys}]

\* scaffold, lines 266-288: derive_names, the display-name override and the
\* check that the directory is a clone of the template
Validate ==
    /\ pc = "Validate"
    /\ steps' = Append(steps, "Validate")
    /\ IF ~NameAccepted(args.name)
       THEN /\ pc' = "Exit"
            /\ exit_code' = 1
            /\ exit_reason' = "invalid_name"
            /\ names' = names
       ELSE /\ names' = IF args.display_name # ""
                        THEN [derive_names(args.name) EXCEPT !.display_name = args.display_name]
                        ELSE derive_names(args.name)
            /\ IF ~IsDir(fs, PKG)
               THEN /\ pc' = "Exit"
                    /\ exit_code' = 1
                    /\ exit_reason' = "not_template"
               ELSE /\ pc' = NextStep("Validate")
                    /\ UNCHANGED <<exit_code, exit_reason>>
    /\ mlog' = Append(mlog, {})
    /\ UNCHANGED <<args, fs, fs0, fs_ren, scan_rev, rn, rn2>>

CleanArtifacts ==
    /\ pc = "CleanArtifacts"
    /\ LET r == clean_artifacts(fs, args.dry_run)
       IN  fs' = r.fs /\ mlog' = Append(mlog, r.ops)
    /\ steps' = Append(steps, "CleanArtifacts")
    /\ pc' = NextStep("CleanArtifacts")
    /\ UNCHANGED <<args, fs0, fs_ren, names, exit_code, exit_reason, scan_rev, rn, rn2>>

RemoveDemo ==
    /\ pc = "RemoveDemo"
    /\ LET r == remove_demo_content(fs, args.dry_run)
       IN  fs' = r.fs /\ mlog' = Append(mlog, r.ops)
    /\ steps' = Append(steps, "RemoveDemo")
    /\ pc' = NextStep("RemoveDemo")
    /\ UNCHANGED <<args, fs0, fs_ren, names, exit_code, exit_reason, scan_rev, rn, rn2>>

RewriteContent ==
    /\ pc = "RewriteContent"
    /\ LET r == replace_in_files(fs, build_replacements(names), args.dry_run)
       IN  fs' = r.fs /\ mlog' = Append(mlog, r.ops)
    /\ steps' = Append(steps, "RewriteContent")
    /\ pc' = NextStep("RewriteContent")
    /\ UNCHANGED <<args, fs0, fs_ren, names, exit_code, exit_reason, scan_rev, rn, rn2>>

RenamePaths ==
    /\ pc = "RenamePaths"
    /\ LET r == rename_paths(fs, names, args.dry_run, scan_rev)
       IN  /\ fs' = r.fs
           /\ fs_ren' = r.fs
           /\ mlog' = Append(mlog, r.ops)
           /\ rn' = Outcome(r, fs)
           /\ IF r.raised
              THEN pc' = "Crashed" /\ exit_code' = 1
              ELSE pc' = NextStep("RenamePaths") /\ exit_code' = exit_code
    /\ steps' = Append(steps, "RenamePaths")
    /\ UNCHANGED <<args, fs0, names, exit_reason, scan_rev, rn2>>

PostProcessOverrides ==
    /\ pc = "PostProcessOverrides"
    /\ LET r == post_process(fs, names, args, scan_rev)
       IN  /\ fs' = r.fs
           /\ mlog' = Append(mlog, r.ops)
           /\ IF r.raised
              THEN pc' = "Crashed" /\ exit_code' = 1
              ELSE pc' = NextStep("PostProcessOverrides") /\ exit_code' = exit_code
    /\ steps' = Append(steps, "PostProcessOverrides")
    /\ UNCHANGED <<args, fs0, fs_ren, names, exit_reason, scan_rev, rn, rn2>>

SelfDelete ==
    /\ pc = "SelfDelete"
    /\ LET r == self_delete(fs, args.dry_run)
       IN  fs' = r.fs /\ mlog' = Append(mlog, r.ops)
    /\ steps' = Append(steps, "SelfDelete")
    /\ pc' = NextStep("SelfDelete")
    /\ exit_code' = 0
    /\ UNCHANGED <<args, fs0, fs_ren, names, exit_reason, scan_rev, rn, rn2>>

Next ==
    \/ Validate
    \/ CleanArtifacts
    \/ RemoveDemo
    \/ RewriteContent
    \/ RenamePaths
    \/ PostProcessOverrides
    \/ SelfDelete

Spec == Init /\ [][Next]_vars

\* every mutation of the run so far
AllOps == UNION {mlog[i] : i \in DOMAIN mlog}

----------------------------------------------------------------------------
(* rename_paths run twice in succession on one tree                        *)

InitTwice ==
    /\ pc = "First"
    /\ args \in {a \in ArgInputs : /\ NameAccepted(a.name)
                                   /\ a.display_name = "" /\ a.description = ""
                                   /\ a.port = DEFAULT_PORT /\ ~a.dry_run}
    /\ fs \in TreeInputs
    /\ fs0 = fs
    /\ fs_ren = {}
    /\ names = derive_names(args.name)
    /\ steps = <<>>
    /\ mlog = <<>>
    /\ exit_code = -1
    /\ exit_reason = "none"
    /\ scan_rev \in BOOLEAN
    /\ rn = NoRename
    /\ rn2 = NoRename

FirstRename ==
    /\ pc = "First"
    /\ LET r == rename_paths(fs, names, FALSE, scan_rev)
       IN  /\ fs' = r.fs
           /\ fs_ren' = r.fs
           /\ mlog' = Append(mlog, r.ops)
           /\ rn' = Outcome(r, fs)
           /\ pc' = IF r.raised THEN "Crashed" ELSE "Second"
    /\ steps' = Append(steps, "RenamePaths")
    /\ UNCHANGED <<args, fs0, names, exit_code, exit_reason, scan_rev, rn2>>

SecondRename ==
    /\ pc = "Second"
    /\ LET r == rename_paths(fs, names, FALSE, scan_rev)
       IN  /\ fs' = r.fs
           /\ mlog' = Append(mlog, r.ops)
           /\ rn2' = Outcome(r, fs)
           /\ pc' = IF r.raised THEN "Crashed" ELSE "TwiceDone"
    /\ steps' = Append(steps, "RenamePaths")
    /\ UNCHANGED <<args, fs0, fs_ren, names, exit_code, exit_reason, scan_rev, rn>>

NextTwice == FirstRename \/ SecondRename

SpecTwice == InitTwice /\ [][NextTwice]_vars

----------------------------------------------------------------------------
(* Vocabulary of the properties                                            *)

\* the naming grammar, on the whole string: a lowercase letter, lowercase
\* alphanumerics, then groups of one hyphen and one or more lowercase
\* alphanumerics
GrammarOK(name) ==
    /\ Len(name) >= 1
    /\ IsLower(Char(name, 1))
    /\ \A i \in 1..Len(name) :
          IsLower(Char(name, i)) \/ IsDigit(Char(name, i)) \/ Char(name, i) = "-"
    /\ Char(name, Len(name)) # "-"
    /\ ~Contains(name, "--")

\* located under a directory named in SKIP_DIRS
UnderProtected(path) == \E i \in 1..(Len(path) - 1) : path[i] \in SKIP_DIRS

\* outside the protected directories: not under one, and not one itself
OutsideProtected(path) == \A i \in 1..Len(path) : path[i] \notin SKIP_DIRS

Pipeline ==
    <<"Validate", "CleanArtifacts", "RemoveDemo", "RewriteContent", "RenamePaths",
      "PostProcessOverrides", "SelfDelete">>

IsPrefixSeq(a, b) == Len(a) <= Len(b) /\ \A i \in 1..Len(a) : a[i] = b[i]

\* the rename step has finished (normally or by an uncaught OSError)
Renamed == "RenamePaths" \in {steps[i] : i \in DOMAIN steps}

\* the overrides have finished normally
Overridden == pc \in {"SelfDelete", "Done"}

HasPortLiteral(content) ==
    \/ Contains(content, "CHAINLIT_PORT = 1337")
    \/ Contains(content, "default=1337")
    \/ Contains(content, "PORT:-1337")

RECURSIVE Repeat(_, _)
Repeat(c, n) ==
    IF n = 0 THEN ""
    ELSE LET h == Repeat(c, n \div 2)
         IN  h \o h \o (IF n % 2 = 1 THEN c ELSE "")

\* first occurrence of old at or after i none of whose characters is marked
\* "#" in the mask m
FindFree(s, m, old, i) ==
    LET hits == {k \in i..(Len(s) - Len(old) + 1) :
                    /\ StartsAt(s, k, old)
                    /\ ~Contains(SubSeq(m, k, k + Len(old) - 1), "#")}
    IN  IF hits = {} THEN 0 ELSE CHOOSE k \in hits : \A j \in hits : k <= j

RECURSIVE ReplaceFree(_, _, _, _)
\* one rule applied to the text t.s, never matching a character that an
\* earlier rule inserted (marked "#" in t.m); what it inserts is marked
ReplaceFree(t, old, new, i) ==
    LET k == FindFree(t.s, t.m, old, i)
    IN  IF k = 0
        THEN [s |-> SubSeq(t.s, i, Len(t.s)), m |-> SubSeq(t.m, i, Len(t.m))]
        ELSE LET rest == ReplaceFree(t, old, new, k + Len(old))
             IN  [s |-> SubSeq(t.s, i, k - 1) \o new \o rest.s,
                  m |-> SubSeq(t.m, i, k - 1) \o Repeat("#", Len(new)) \o rest.m]

RECURSIVE ReplaceOnceFrom(_, _, _)
ReplaceOnceFrom(t, replacements, k) ==
    IF k > Len(replacements) THEN t
    ELSE CHOOSE out \in {ReplaceOnceFrom(u, replacements, k + 1) :
                            u \in {ReplaceFree(t, replacements[k][1],
                                               replacements[k][2], 1)}} : TRUE

\* the table applied so that every token of the input is replaced exactly
\* once, by the first rule that covers it, and the inserted text stays as is
ReplacedOnce(content, replacements) ==
    ReplaceOnceFrom([s |-> content, m |-> Repeat(".", Len(content))], replacements, 1).s

----------------------------------------------------------------------------
(* Properties                                                              *)

\* C1: a dry run never mutates the file system: the tree stays identical to
\* the initial tree, no mutation is performed, and sbin/scaffold.py is still
\* present.
C1_DryRunLeavesTreeUnchanged ==
    args.dry_run => fs = fs0 /\ AllOps = {} /\ Exists(fs, ScriptPath)

\* a finished dry run on a tree with artifacts, demo content and names to
\* rename, with a description and a port to override
C1_Witness ==
    /\ args.dry_run /\ pc = "Done"
    /\ GrammarOK(args.name)
    /\ ArtifactsAndDemo \subseteq fs0
    /\ Len(rn.pairs) > 0
    /\ args.description # "" /\ args.port # DEFAULT_PORT

\* C2: a name that is not, in its entirety, in the naming grammar is
\* rejected: once validation has run the process has exited with a non-zero
\* status and nothing in the file system has been mutated.
C2_InvalidNameRejected ==
    (~GrammarOK(args.name) /\ pc # "Validate")
        => pc = "Exit" /\ exit_code # 0 /\ AllOps = {} /\ fs = fs0

\* C3: no step of a run with a valid name writes, renames or deletes a file
\* or directory located under a directory named in SKIP_DIRS.
C3_ProtectedNeverTouched ==
    GrammarOK(args.name) => \A o \in AllOps : ~UnderProtected(o.path)

\* C4: the steps run in the strict order of the pipeline, none repeated or
\* revisited, each step's mutations made while that step is the current one;
\* in a run that reaches Done without dry-run the deletion of
\* sbin/scaffold.py is the one mutation of the last step and no earlier step
\* touches the script; under dry-run the script is not deleted.
C4_StrictStepOrder ==
    /\ IsPrefixSeq(steps, Pipeline)
    /\ Len(mlog) = Len(steps)
    /\ \A i \in DOMAIN mlog : \A o \in mlog[i] : o.step = Pipeline[i]
    /\ pc = "Done" =>
          /\ steps = Pipeline
          /\ IF args.dry_run
             THEN mlog[Len(Pipeline)] = {} /\ Exists(fs, ScriptPath)
             ELSE /\ mlog[Len(Pipeline)] = {Op("SelfDelete", "delete", ScriptPath)}
                  /\ ~Exists(fs, ScriptPath)
                  /\ \A i \in 1..(Len(Pipeline) - 1) :
                        \A o \in mlog[i] : o.path # ScriptPath

\* a finished run without dry-run in which every step after validation
\* mutated the tree
C4_Witness ==
    /\ pc = "Done" /\ ~args.dry_run
    /\ \A i \in 2..Len(Pipeline) : mlog[i] # {}

\* C5 as stated: the only controlled early exit is the one taken when the
\* name does not match the grammar; a run with a valid name never exits
\* early.
C5_OnlyInvalidNameExits ==
    pc = "Exit" => exit_reason = "invalid_name" /\ ~GrammarOK(args.name)

\* C5 amended: a controlled early exit has status 1, is taken from the
\* Validate step before any mutation, and has one of two causes: the name
\* is not in the grammar, or src/autobots_agents_jarvis is not a directory
\* of the tree; a run with a valid name on a tree that has that directory
\* takes no early exit and goes on to CleanArtifacts.
C5_ExitsOnlyFromValidate ==
    /\ pc = "Exit" =>
          /\ exit_code = 1
          /\ steps = <<"Validate">>
          /\ AllOps = {} /\ fs = fs0
          /\ exit_reason \in {"invalid_name", "not_template"}
          /\ exit_reason = "invalid_name" => ~GrammarOK(args.name)
          /\ exit_reason = "not_template" => ~IsDir(fs0, PKG)
    /\ (GrammarOK(args.name) /\ IsDir(fs0, PKG) /\ pc # "Validate") =>
          /\ pc # "Exit"
          /\ pc = "CleanArtifacts" \/ (Len(steps) >= 2 /\ steps[2] = "CleanArtifacts")

\* a valid name, and still an early exit: the tree is no clone of the template
C5_Witness ==
    pc = "Exit" /\ GrammarOK(args.name) /\ exit_reason = "not_template"

\* C6: after the content rewrite with the table of a valid name, every
\* rewritten file holds its original text with every template token
\* replaced exactly once by the first rule that covers it, the inserted
\* strings unmodified: no later rule re-matches what an earlier one produced.
C6_NoRuleRematchesInsertedText ==
    (pc = "RenamePaths" /\ ~args.dry_run /\ GrammarOK(args.name)) =>
        \A e \in fs : Rewritable(e) =>
            e.content = ReplacedOnce(Entry(fs0, e.path).content,
                                     build_replacements(names))

\* C7 as stated: after a run without dry-run and with a port P other than
\* 1337, every settings.py that held "default=1337" holds "default=P" in
\* its place, the Makefile likewise for "CHAINLIT_PORT = 1337", and every
\* file that held none of the port literals has the content it had after
\* the rename step; with P = 1337 or under dry-run the port override
\* changes no file.
C7_PortOverrideAsStated ==
    Overridden =>
        \A e \in fs_ren : (~e.dir /\ Exists(fs, e.path)) =>
            LET after == Entry(fs, e.path).content
                p == IntToStr(args.port)
            IN  IF ~args.dry_run /\ args.port # DEFAULT_PORT
                THEN /\ (Name(e.path) = "settings.py" /\ Contains(e.content, "default=1337"))
                          => /\ after = str_replace(e.content, "default=1337", "default=" \o p)
                             /\ Contains(after, "default=" \o p)
                     /\ (e.path = <<"Makefile">> /\ Contains(e.content, "CHAINLIT_PORT = 1337"))
                          => /\ after = str_replace(e.content, "CHAINLIT_PORT = 1337",
                                                    "CHAINLIT_PORT = " \o p)
                             /\ Contains(after, "CHAINLIT_PORT = " \o p)
                     /\ ~HasPortLiteral(e.content) => after = e.content
                ELSE e.path # <<"pyproject.toml">> => after = e.content

\* C7 amended: as stated, except that pyproject.toml, when a description is
\* given, is the one file without a port literal whose content differs from
\* the one it had after the rename step: it holds the description in place
\* of "<display name> - Multi-agent AI Assistant Demo".
C7_PortOverride ==
    Overridden =>
        \A e \in fs_ren : (~e.dir /\ Exists(fs, e.path)) =>
            LET after == Entry(fs, e.path).content
                p == IntToStr(args.port)
                described == /\ e.path = <<"pyproject.toml">>
                             /\ args.description # "" /\ ~args.dry_run
            IN  /\ IF ~args.dry_run /\ args.port # DEFAULT_PORT
                   THEN /\ (Name(e.path) = "settings.py" /\ Contains(e.content, "default=1337"))
                             => /\ after = str_replace(e.content, "default=1337", "default=" \o p)
                                /\ Contains(after, "default=" \o p)
                        /\ (e.path = <<"Makefile">> /\ Contains(e.content, "CHAINLIT_PORT = 1337"))
                             => /\ after = str_replace(e.content, "CHAINLIT_PORT = 1337",
                                                       "CHAINLIT_PORT = " \o p)
                                /\ Contains(after, "CHAINLIT_PORT = " \o p)
                        /\ (~HasPortLiteral(e.content) /\ ~described) => after = e.content
                   ELSE ~described => after = e.content
                /\ (described /\ ~HasPortLiteral(e.content)) =>
                      after = str_replace(e.content,
                                          names.display_name \o " - Multi-agent AI Assistant Demo",
                                          args.description)

\* a finished run with port 8080 and a description: a settings.py and the
\* Makefile hold the new port, pyproject.toml the new description
C7_Witness ==
    /\ pc = "Done" /\ ~args.dry_run /\ args.port = 8080 /\ args.description # ""
    /\ \E e \in fs : Name(e.path) = "settings.py" /\ Contains(e.content, "default=8080")
    /\ \E e \in fs : e.path = <<"Makefile">> /\ e.content = "CHAINLIT_PORT = 8080"
    /\ \E e \in fs : e.path = <<"pyproject.toml">> /\ Contains(e.content, args.description)
    /\ \E e \in fs : ~HasPortLiteral(e.content) /\ e \in fs_ren /\ e.content # ""

\* C8: after the rename step of a run without dry-run, for a valid name
\* that does not contain "jarvis", no file and no directory outside the
\* protected directories has a name containing "jarvis".
C8_NoJarvisNameLeft ==
    (Renamed /\ ~rn.raised /\ ~args.dry_run
        /\ GrammarOK(args.name) /\ ~Contains(args.name, "jarvis")) =>
        \A e \in fs : OutsideProtected(e.path) => ~Contains(Name(e.path), "jarvis")

\* C9: rename_paths run twice in succession with the names of a valid
\* project name performs no rename in the second run.
C9_SecondRunRenamesNothing ==
    (pc = "TwiceDone" /\ GrammarOK(args.name)) => rn2.renamed = 0

\* C10: the list of rename pairs is computed from the tree as it is before
\* any rename, no entry of the list lies below a later entry's old path
\* (the files of a directory, and everything deeper, come before the
\* directory), and when the list is executed every pair's old path exists
\* when its rename is attempted: no rename is skipped.
C10_NoComputedRenameSkipped ==
    /\ rn.skipped = 0
    /\ \A i \in DOMAIN rn.pairs : rn.pairs[i][1] \in rn.paths
    /\ \A i, j \in DOMAIN rn.pairs :
          (i < j) => ~(/\ IsPrefix(rn.pairs[i][1], rn.pairs[j][1])
                       /\ rn.pairs[i][1] # rn.pairs[j][1])

\* a run that renamed a file and, after it, the directory the file is in
C10_Witness ==
    /\ ~args.dry_run /\ ~rn.raised /\ Renamed
    /\ rn.renamed = Len(rn.pairs)
    /\ \E i, j \in DOMAIN rn.pairs :
          /\ i < j
          /\ IsPrefix(rn.pairs[j][1], rn.pairs[i][1])
          /\ rn.pairs[j][1] # rn.pairs[i][1]

====
